---- MODULE Spec2Model ----
(***************************************************************************)
(* Model of final.py: a Streamlit script that loads airports.csv, keeps    *)
(* the New England rows, coerces the elevation column, filters the table   *)
(* by the widget values, sorts, aggregates and renders.  Streamlit runs    *)
(* the whole script top to bottom on every widget change; pc is the        *)
(* position of the current run in the script.                              *)
(***************************************************************************)
EXTENDS Integers, Sequences, FiniteSets, TLC

VARIABLES source, df, state, show_scheduled, min_elevation, airport_types,
          filtered, stats, category, type_counts, search_term, result,
          rendered, raised, pc, memo

vars == <<source, df, state, show_scheduled, min_elevation, airport_types,
          filtered, stats, category, type_counts, search_term, result,
          rendered, raised, pc, memo>>

(***************************************************************************)
(* Cells.  A missing CSV field is read by pandas as NaN.                   *)
(***************************************************************************)
NaN == "NaN"

\* a name is a sequence of characters; read_csv yields NaN for an empty field
NaNName == <<>>

\* elevation cells: k = "nan" (missing), "num" (float64), "txt" (text of a
\* number in an object column), "bad" (text that is no number)
ElevNaN == [k |-> "nan", v |-> 0]
ElevNum(n) == [k |-> "num", v |-> n]
ElevBad == [k |-> "bad", v |-> 0]

\* src/final.py:14-21
state_names ==
    [c \in {"US-CT", "US-ME", "US-MA", "US-NH", "US-RI", "US-VT"} |->
        CASE c = "US-CT" -> "Connecticut"
          [] c = "US-ME" -> "Maine"
          [] c = "US-MA" -> "Massachusetts"
          [] c = "US-NH" -> "New Hampshire"
          [] c = "US-RI" -> "Rhode Island"
          [] c = "US-VT" -> "Vermont"]

\* Series.map(dict): a key that is not in the dict maps to NaN
MapState(code) == IF code \in DOMAIN state_names THEN state_names[code] ELSE NaN

(***************************************************************************)
(* Sequence helpers.                                                       *)
(***************************************************************************)
RECURSIVE SelectRows(_, _)
\* boolean-mask indexing data[mask]: the rows of the mask, in their order
SelectRows(data, keep) ==
    IF data = <<>> THEN <<>>
    ELSE IF Head(data).idx \in keep
         THEN <<Head(data)>> \o SelectRows(Tail(data), keep)
         ELSE SelectRows(Tail(data), keep)

Rows(data) == {data[i] : i \in DOMAIN data}

Idx(data) == {data[i].idx : i \in DOMAIN data}

(***************************************************************************)
(* Bounds and the rows a source file is drawn from.  Each family of rows   *)
(* varies the columns one stage of the script looks at and keeps the       *)
(* others at a default.                                                    *)
(***************************************************************************)
MaxRows == 2

BostonInternational ==
    <<"B", "o", "s", "t", "o", "n", " ", "I", "n", "t", "e", "r", "n", "a", "t", "i", "o", "n", "a", "l", " ", "A", "i", "r", "p", "o", "r", "t">>

SmallField == <<"S", "m", "a", "l", "l", " ", "F", "i", "e", "l", "d">>

\* a row of airports.csv as read_csv sees its text (municipality, which
\* no stage computes with, is left out)
MkRow(region, lat, lon, sched, elev, type, name) ==
    [iso_region |-> region, latitude_deg |-> lat, longitude_deg |-> lon,
     scheduled_service |-> sched, elevation_ft |-> elev, type |-> type,
     name |-> name]

DefaultRow(region, lat, lon) ==
    MkRow(region, lat, lon, "yes", ElevNum(1000), "small_airport", SmallField)

\* rows for the loader: every supported code, an unsupported one, a missing
\* one, and a missing coordinate
LoadRows ==
    << DefaultRow("US-CT", "41.9", "-72.7"),
       DefaultRow("US-ME", "41.9", "-72.7"),
       DefaultRow("US-NH", "41.9", "-72.7"),
       DefaultRow("US-RI", "41.9", "-72.7"),
       DefaultRow("US-VT", "41.9", "-72.7"),
       DefaultRow("US-NY", "41.9", "-72.7"),
       DefaultRow(NaN, "41.9", "-72.7"),
       DefaultRow("US-MA", NaN, "-71.0"),
       DefaultRow("US-MA", "42.4", NaN) >>

\* rows for the filter: one region; the scheduled flag, the elevation and
\* the type each vary, alone and together
FilterRows ==
    << DefaultRow("US-MA", "42.4", "-71.0"),
       MkRow("US-MA", "42.4", "-71.0", "no", ElevNum(1000), "small_airport", SmallField),
       MkRow("US-MA", "42.4", "-71.0", "yes", ElevNaN, "small_airport", SmallField),
       MkRow("US-MA", "42.4", "-71.0", "yes", ElevNum(-1), "small_airport", SmallField),
       MkRow("US-MA", "42.4", "-71.0", "yes", ElevNum(999), "small_airport", SmallField),
       MkRow("US-MA", "42.4", "-71.0", "yes", ElevNum(1999), "small_airport", SmallField),
       MkRow("US-MA", "42.4", "-71.0", "yes", ElevNum(2000), "small_airport", SmallField),
       MkRow("US-MA", "42.4", "-71.0", "yes", ElevNum(1000), "heliport", SmallField),
       MkRow("US-MA", "42.4", "-71.0", "yes", ElevNum(1000), NaN, SmallField),
       MkRow("US-MA", "42.4", "-71.0", "no", ElevNum(999), "heliport", SmallField),
       MkRow("US-MA", "42.4", "-71.0", "no", ElevNum(2000), NaN, SmallField),
       MkRow("US-MA", "42.4", "-71.0", "yes", ElevNaN, NaN, SmallField),
       MkRow("US-MA", "42.4", "-71.0", "no", ElevNum(2500), "heliport", SmallField) >>

\* rows whose elevation text is no number, one of them in a row the loader
\* drops
ElevRows ==
    << MkRow("US-MA", "42.4", "-71.0", "yes", ElevBad, "small_airport", SmallField),
       MkRow("US-CT", "41.9", "-72.7", "yes", ElevBad, "small_airport", SmallField),
       MkRow("US-NY", "41.9", "-72.7", "yes", ElevBad, "small_airport", SmallField) >>

\* rows for the name search
NameRows ==
    << MkRow("US-MA", "42.4", "-71.0", "yes", ElevNum(1000), "large_airport",
             BostonInternational),
       MkRow("US-MA", "42.4", "-71.0", "no", ElevNum(1000), "small_airport", NaNName) >>

Catalog == LoadRows \o FilterRows \o ElevRows \o NameRows

\* the source files: up to MaxRows rows of the catalog, in catalog order
Picks ==
    UNION {{p \in [1..k -> DOMAIN Catalog] :
               \A i \in 1..k : \A j \in 1..k : i < j => p[i] < p[j]} :
           k \in 1..MaxRows}

Sources == {[i \in DOMAIN p |-> Catalog[p[i]]] : p \in Picks}

(***************************************************************************)
(* Loader, src/final.py:8-27.                                              *)
(***************************************************************************)
\* read_csv infers one dtype per column: a column holding text that is no
\* number is an object column, whose numeric fields stay text as well
ElevIsObject(src) == \E i \in DOMAIN src : src[i].elevation_ft.k = "bad"

\* a column with no text at all is read as float64 (all NaN)
NameIsObject(src) == \E i \in DOMAIN src : src[i].name # NaNName

ReadElev(src, cell) ==
    IF ElevIsObject(src) /\ cell.k = "num" THEN [k |-> "txt", v |-> cell.v] ELSE cell

\* pd.read_csv: the rows under a RangeIndex 0..n-1
read_csv(src) ==
    [i \in DOMAIN src |->
        [idx |-> i - 1,
         iso_region |-> src[i].iso_region,
         latitude_deg |-> src[i].latitude_deg,
         longitude_deg |-> src[i].longitude_deg,
         scheduled_service |-> src[i].scheduled_service,
         elevation_ft |-> ReadElev(src, src[i].elevation_ft),
         type |-> src[i].type,
         name |-> src[i].name,
         State |-> NaN]]

\* df.dropna(subset=['latitude_deg', 'longitude_deg', 'iso_region'])
DropNaRequired(data) ==
    SelectRows(data, {r.idx : r \in {x \in Rows(data) :
        x.latitude_deg # NaN /\ x.longitude_deg # NaN /\ x.iso_region # NaN}})

\* df['State'] = df['iso_region'].map(state_names)
WithState(data) ==
    [i \in DOMAIN data |-> [data[i] EXCEPT !.State = MapState(data[i].iso_region)]]

\* mutant: the rows without a State are kept
KeepEveryRegion(data) == data

\* df[df['State'].notnull()]
KeepNewEngland(data) ==
    SelectRows(data, {r.idx : r \in {x \in Rows(data) : x.State # NaN}})

LoadTable(src) == KeepNewEngland(WithState(DropNaRequired(read_csv(src))))

\* mutant: the flag is ignored and nothing is filtered
filter_scheduled_off(data, scheduled) == data

(***************************************************************************)
(* filter_scheduled, src/final.py:30-34.                                   *)
(***************************************************************************)
filter_scheduled(data, scheduled) ==
    IF scheduled
    THEN SelectRows(data, {r.idx : r \in {x \in Rows(data) :
                                            x.scheduled_service = "yes"}})
    ELSE data

(***************************************************************************)
(* Elevation coercion, src/final.py:41-44.                                 *)
(***************************************************************************)
\* float(text) raises on text that is no number
CoercionFails(data) == \E r \in Rows(data) : r.elevation_ft.k = "bad"

AsFloat(cell) == IF cell.k = "txt" THEN [k |-> "num", v |-> cell.v] ELSE cell

AstypeFloat(data) ==
    [i \in DOMAIN data |-> [data[i] EXCEPT !.elevation_ft = AsFloat(data[i].elevation_ft)]]

(***************************************************************************)
(* Filter stage, src/final.py:67-80.                                       *)
(***************************************************************************)
\* df[df['State'] == state]
FilterState(data, st) ==
    SelectRows(data, {r.idx : r \in {x \in Rows(data) : x.State = st}})

\* text >= int raises TypeError; NaN compares False without raising
CompareRaises(data) ==
    \E r \in Rows(data) : r.elevation_ft.k \in {"txt", "bad"}

\* filtered[filtered['elevation_ft'] >= min_elevation]
FilterElevation(data, m) ==
    SelectRows(data, {r.idx : r \in {x \in Rows(data) :
        x.elevation_ft.k = "num" /\ x.elevation_ft.v >= m}})

\* mutant: a membership test in which NaN matches nothing
FilterTypeNoNaN(data, types) ==
    SelectRows(data, {r.idx : r \in {x \in Rows(data) :
        x.type # NaN /\ x.type \in types}})

\* filtered[filtered['type'].isin(airport_types)]: isin matches NaN with NaN
FilterType(data, types) ==
    SelectRows(data, {r.idx : r \in {x \in Rows(data) : x.type \in types}})

\* filtered.dropna(subset=['latitude_deg', 'longitude_deg'])
DropNaCoords(data) ==
    SelectRows(data, {r.idx : r \in {x \in Rows(data) :
        x.latitude_deg # NaN /\ x.longitude_deg # NaN}})

\* df['type'].unique(): the distinct values, NaN among them
Unique(data) == {r.type : r \in Rows(data)}

(***************************************************************************)
(* Sort, src/final.py:83.  sort_values is called without kind=, so it      *)
(* runs numpy's default quicksort, which is not stable: any order with     *)
(* non-increasing keys can come out.                                       *)
(***************************************************************************)
Perms(n) == {p \in [1..n -> 1..n] : \A i \in 1..n : \E j \in 1..n : p[j] = i}

Descending(data) ==
    \A i \in DOMAIN data : \A j \in DOMAIN data :
        i < j => data[i].elevation_ft.v >= data[j].elevation_ft.v

SortOutcomes(data) ==
    {s \in {[i \in DOMAIN data |-> data[p[i]]] : p \in Perms(Len(data))} :
        Descending(s)}

(***************************************************************************)
(* Aggregation and derivation, src/final.py:37-38, 86-103.                 *)
(***************************************************************************)
RECURSIVE SumElev(_)
SumElev(data) ==
    IF data = <<>> THEN 0 ELSE Head(data).elevation_ft.v + SumElev(Tail(data))

\* min, max and mean of the elevation column; on an empty column pandas
\* returns NaN for all three (n = 0 here), it does not raise
elevation_stats(data) ==
    IF data = <<>>
    THEN [n |-> 0, min |-> 0, max |-> 0, sum |-> 0]
    ELSE [n |-> Len(data),
          min |-> CHOOSE m \in {r.elevation_ft.v : r \in Rows(data)} :
                      \A r \in Rows(data) : m <= r.elevation_ft.v,
          max |-> CHOOSE m \in {r.elevation_ft.v : r \in Rows(data)} :
                      \A r \in Rows(data) : m >= r.elevation_ft.v,
          sum |-> SumElev(data)]

HighFrom == 2000
MediumFrom == 1000

\* mutant: the High threshold is exclusive
elevation_level_gt(row) ==
    IF row.elevation_ft.v > HighFrom THEN "High"
    ELSE IF row.elevation_ft.v >= MediumFrom THEN "Medium"
    ELSE "Low"

elevation_level(row) ==
    IF row.elevation_ft.v >= HighFrom THEN "High"
    ELSE IF row.elevation_ft.v >= MediumFrom THEN "Medium"
    ELSE "Low"

\* filtered.groupby('type').size(): groupby drops the rows whose key is NaN
\* (dropna=True is the default)
GroupSize(data) ==
    {[type |-> t, count |-> Cardinality({r \in Rows(data) : r.type = t})] :
        t \in {r.type : r \in Rows(data)} \ {NaN}}

(***************************************************************************)
(* Name search, src/final.py:145-149.  str.contains takes the term as a    *)
(* regular expression (regex=True is the default) with re.IGNORECASE.      *)
(* Terms are over letters, the space, "." and "(".                         *)
(***************************************************************************)
UpperCase ==
    <<"A", "B", "C", "D", "E", "F", "G", "H", "I", "J", "K", "L", "M">> \o
    <<"N", "O", "P", "Q", "R", "S", "T", "U", "V", "W", "X", "Y", "Z">>

LowerCase ==
    <<"a", "b", "c", "d", "e", "f", "g", "h", "i", "j", "k", "l", "m">> \o
    <<"n", "o", "p", "q", "r", "s", "t", "u", "v", "w", "x", "y", "z">>

\* str.lower on one character
Fold(c) ==
    IF \E i \in DOMAIN UpperCase : UpperCase[i] = c
    THEN LowerCase[CHOOSE i \in DOMAIN UpperCase : UpperCase[i] = c]
    ELSE c

\* re.compile raises on a group that is opened and never closed
CompileRaises(pat) == \E i \in DOMAIN pat : pat[i] = "("

\* the pattern matches the text at offset o: "." matches any character,
\* every other character matches itself up to case
MatchesAt(pat, text, o) ==
    /\ o + Len(pat) <= Len(text)
    /\ \A j \in DOMAIN pat :
          pat[j] = "." \/ Fold(pat[j]) = Fold(text[o + j])

\* re.search(pat, text, re.IGNORECASE)
RegexSearch(pat, text) == \E o \in 0..Len(text) : MatchesAt(pat, text, o)

\* filtered[filtered['name'].str.contains(term, case=False, na=False)]
SearchRows(data, term) ==
    SelectRows(data, {r.idx : r \in {x \in Rows(data) :
        x.name # NaNName /\ RegexSearch(term, x.name)}})

(***************************************************************************)
(* Widget values offered to a run.                                         *)
(***************************************************************************)
\* st.selectbox over list(state_names.values()): a state with filter rows,
\* and two with a single row at most
StateChoices == {state_names[c] : c \in {"US-MA", "US-CT", "US-VT"}}

\* st.slider(0, 5000): values below, at and above the elevations of the rows
MinElevations == {0, 1000, 2000}

InterTerm == <<"I", "N", "T", "E", "R">>
DotTerm == <<"l", ".">>
ParenTerm == <<"(">>

\* st.text_input: nothing typed, a plain word, and two terms with a
\* character that a regular expression reads specially
SearchTerms == {<<>>, InterTerm, DotTerm, ParenTerm}

NoStats == [n |-> 0, min |-> 0, max |-> 0, sum |-> 0]

(***************************************************************************)
(* The script, one action per stage.  rendered is the page: the elements   *)
(* written so far, in order.  An exception ends the run (pc = "aborted").  *)
(***************************************************************************)
Start(src) ==
    /\ source = src
    /\ df = <<>>
    /\ state = ""
    /\ show_scheduled = FALSE
    /\ min_elevation = 0
    /\ airport_types = {}
    /\ filtered = <<>>
    /\ stats = NoStats
    /\ category = <<>>
    /\ type_counts = {}
    /\ search_term = <<>>
    /\ result = <<>>
    /\ rendered = <<>>
    /\ raised = "none"
    /\ pc = "load"

Init == \E src \in Sources : Start(src) /\ memo = {}

\* lines 8-27
Load ==
    /\ pc = "load"
    /\ df' = LoadTable(source)
    /\ pc' = "coerce"
    /\ UNCHANGED <<source, state, show_scheduled, min_elevation, airport_types,
                   filtered, stats, category, type_counts, search_term, result,
                   rendered, raised, memo>>

\* lines 41-44
Coerce ==
    /\ pc = "coerce"
    /\ \/ /\ ~CoercionFails(df)
          /\ df' = AstypeFloat(df)
          /\ rendered' = rendered
       \/ /\ CoercionFails(df)
          /\ df' = df
          /\ rendered' = Append(rendered, "coercion_error")
    /\ pc' = "widgets"
    /\ UNCHANGED <<source, state, show_scheduled, min_elevation, airport_types,
                   filtered, stats, category, type_counts, search_term, result,
                   raised, memo>>

\* lines 55-64
Widgets ==
    /\ pc = "widgets"
    /\ state' \in StateChoices
    /\ show_scheduled' \in BOOLEAN
    /\ min_elevation' \in MinElevations
    /\ airport_types' \in SUBSET Unique(df)
    /\ pc' = "filter"
    /\ UNCHANGED <<source, df, filtered, stats, category, type_counts,
                   search_term, result, rendered, raised, memo>>

\* lines 67-80
Filter ==
    /\ pc = "filter"
    /\ LET scheduled == filter_scheduled(FilterState(df, state), show_scheduled)
       IN \/ /\ CompareRaises(scheduled)
             /\ filtered' = scheduled
             /\ raised' = "TypeError"
             /\ pc' = "aborted"
          \/ /\ ~CompareRaises(scheduled)
             /\ filtered' = DropNaCoords(FilterType(
                                FilterElevation(scheduled, min_elevation),
                                airport_types))
             /\ raised' = raised
             /\ pc' = "sort"
    /\ UNCHANGED <<source, df, state, show_scheduled, min_elevation,
                   airport_types, stats, category, type_counts, search_term,
                   result, rendered, memo>>

\* mutant: the sorted view is assigned to df
SortIntoBase ==
    /\ pc = "sort"
    /\ filtered' \in SortOutcomes(filtered)
    /\ df' = filtered'
    /\ pc' = "stats"
    /\ UNCHANGED <<source, state, show_scheduled, min_elevation,
                   airport_types, stats, category, type_counts, search_term,
                   result, rendered, raised, memo>>

\* line 83
Sort ==
    /\ pc = "sort"
    /\ filtered' \in SortOutcomes(filtered)
    /\ pc' = "stats"
    /\ UNCHANGED <<source, df, state, show_scheduled, min_elevation,
                   airport_types, stats, category, type_counts, search_term,
                   result, rendered, raised, memo>>

\* lines 86-89
Stats ==
    /\ pc = "stats"
    /\ stats' = elevation_stats(filtered)
    /\ rendered' = rendered \o <<"min_elevation", "max_elevation", "avg_elevation">>
    /\ pc' = "categorize"
    /\ UNCHANGED <<source, df, state, show_scheduled, min_elevation,
                   airport_types, filtered, category, type_counts, search_term,
                   result, raised, memo>>

\* lines 92-100.  On an empty frame DataFrame.apply(axis=1) returns, by the
\* pandas version, an empty Series or a copy of the frame; assigning a frame
\* of several columns to one column raises ValueError.
Categorize ==
    /\ pc = "categorize"
    /\ \/ /\ filtered # <<>>
          /\ category' = [i \in DOMAIN filtered |-> elevation_level(filtered[i])]
          /\ raised' = raised
          /\ pc' = "group"
       \/ /\ filtered = <<>>
          /\ category' = <<>>
          /\ raised' = raised
          /\ pc' = "group"
       \/ /\ filtered = <<>>
          /\ category' = category
          /\ raised' = "ValueError"
          /\ pc' = "aborted"
    /\ UNCHANGED <<source, df, state, show_scheduled, min_elevation,
                   airport_types, filtered, stats, type_counts, search_term,
                   result, rendered, memo>>

\* line 103
Group ==
    /\ pc = "group"
    /\ type_counts' = GroupSize(filtered)
    /\ pc' = "charts"
    /\ UNCHANGED <<source, df, state, show_scheduled, min_elevation,
                   airport_types, filtered, stats, category, search_term,
                   result, rendered, raised, memo>>

\* lines 106-142: the sample line, the bar chart, the three guarded charts
\* and the table (its row-count slider only truncates what is shown)
Charts ==
    /\ pc = "charts"
    /\ rendered' = rendered
            \o (IF filtered # <<>> THEN <<"sample">> ELSE <<>>)
            \o <<"bar_chart">>
            \o (IF filtered # <<>> THEN <<"pie_chart", "line_chart", "box_chart">>
                                   ELSE <<>>)
            \o <<"table">>
    /\ pc' = "search"
    /\ UNCHANGED <<source, df, state, show_scheduled, min_elevation,
                   airport_types, filtered, stats, category, type_counts,
                   search_term, result, raised, memo>>

\* lines 145-149
Search ==
    /\ pc = "search"
    /\ \E term \in SearchTerms :
          /\ search_term' = term
          /\ \/ /\ term = <<>>
                /\ UNCHANGED <<result, rendered, raised>>
                /\ pc' = "map"
             \/ /\ term # <<>>
                /\ ~NameIsObject(source)
                /\ raised' = "AttributeError"
                /\ pc' = "aborted"
                /\ UNCHANGED <<result, rendered>>
             \/ /\ term # <<>>
                /\ NameIsObject(source)
                /\ CompileRaises(term)
                /\ raised' = "re.error"
                /\ pc' = "aborted"
                /\ UNCHANGED <<result, rendered>>
             \/ /\ term # <<>>
                /\ NameIsObject(source)
                /\ ~CompileRaises(term)
                /\ result' = SearchRows(filtered, term)
                /\ rendered' = Append(rendered, "search_results")
                /\ raised' = raised
                /\ pc' = "map"
    /\ UNCHANGED <<source, df, state, show_scheduled, min_elevation,
                   airport_types, filtered, stats, category, type_counts, memo>>

\* lines 152-193
Map ==
    /\ pc = "map"
    /\ rendered' = Append(rendered, IF filtered # <<>> THEN "map" ELSE "no_matches")
    /\ pc' = "totals"
    /\ UNCHANGED <<source, df, state, show_scheduled, min_elevation,
                   airport_types, filtered, stats, category, type_counts,
                   search_term, result, raised, memo>>

\* lines 196-201
Totals ==
    /\ pc = "totals"
    /\ rendered' = rendered \o <<"total_airports", "number_of_types">>
            \o (IF filtered # <<>> THEN <<"average_latitude">> ELSE <<>>)
    /\ pc' = "done"
    /\ UNCHANGED <<source, df, state, show_scheduled, min_elevation,
                   airport_types, filtered, stats, category, type_counts,
                   search_term, result, raised, memo>>

\* memo is a history variable: the widget values and the view of one earlier
\* completed run, and whether a run with other widget values came after it
SameWidgets(m) ==
    /\ m.state = state
    /\ m.show_scheduled = show_scheduled
    /\ m.min_elevation = min_elevation
    /\ m.airport_types = airport_types

NoteRun(old) ==
    {[m EXCEPT !.between = m.between \/ (pc = "done" /\ ~SameWidgets(m))] : m \in old}

Remember ==
    /\ pc = "done"
    /\ memo = {}
    /\ memo' = {[state |-> state, show_scheduled |-> show_scheduled,
                 min_elevation |-> min_elevation, airport_types |-> airport_types,
                 view |-> Rows(filtered), between |-> FALSE]}
    /\ UNCHANGED <<source, df, state, show_scheduled, min_elevation,
                   airport_types, filtered, stats, category, type_counts,
                   search_term, result, rendered, raised, pc>>

\* a widget change: Streamlit runs the script again from the top, in a
\* fresh namespace and on a fresh page
Rerun ==
    /\ pc \in {"done", "aborted"}
    /\ df' = <<>>
    /\ state' = ""
    /\ show_scheduled' = FALSE
    /\ min_elevation' = 0
    /\ airport_types' = {}
    /\ filtered' = <<>>
    /\ stats' = NoStats
    /\ category' = <<>>
    /\ type_counts' = {}
    /\ search_term' = <<>>
    /\ result' = <<>>
    /\ rendered' = <<>>
    /\ raised' = "none"
    /\ pc' = "load"
    /\ memo' = NoteRun(memo)
    /\ UNCHANGED source

Next ==
    \/ Load
    \/ Coerce
    \/ Widgets
    \/ Filter
    \/ Sort
    \/ Stats
    \/ Categorize
    \/ Group
    \/ Charts
    \/ Search
    \/ Map
    \/ Totals
    \/ Rerun

Spec == Init /\ [][Next]_vars

(***************************************************************************)
(* Runs of the script one after another over a few source files, with the  *)
(* history variable recording an earlier run.                              *)
(***************************************************************************)
RerunCatalog ==
    << FilterRows[1], FilterRows[2], FilterRows[5], ElevRows[1], NameRows[2] >>

RerunPicks ==
    UNION {{p \in [1..k -> DOMAIN RerunCatalog] :
               \A i \in 1..k : \A j \in 1..k : i < j => p[i] < p[j]} :
           k \in 1..MaxRows}

RerunSources == {[i \in DOMAIN p |-> RerunCatalog[p[i]]] : p \in RerunPicks}

InitRerun == \E src \in RerunSources : Start(src) /\ memo = {}

NextRerun == Next \/ Remember

SpecRerun == InitRerun /\ [][NextRerun]_vars

(***************************************************************************)
(* Positions of a run.                                                     *)
(***************************************************************************)
\* the filter stage has produced the view
ViewStages ==
    {"sort", "stats", "categorize", "group", "charts", "search", "map",
     "totals", "done"}

ViewReady ==
    \/ pc \in ViewStages
    \/ pc = "aborted" /\ raised # "TypeError"

\* the view has been sorted
Sorted ==
    \/ pc \in ViewStages \ {"sort"}
    \/ pc = "aborted" /\ raised # "TypeError"

\* the category column has been assigned
Categorized ==
    \/ pc \in {"group", "charts", "search", "map", "totals", "done"}
    \/ pc = "aborted" /\ raised \in {"AttributeError", "re.error"}

\* type_counts has been computed
Grouped ==
    \/ pc \in {"charts", "search", "map", "totals", "done"}
    \/ pc = "aborted" /\ raised \in {"AttributeError", "re.error"}

\* the search block has run
Searched ==
    \/ pc \in {"map", "totals", "done"}
    \/ pc = "aborted" /\ raised \in {"AttributeError", "re.error"}

Shown(tag) == \E i \in DOMAIN rendered : rendered[i] = tag

Times(tag) == Cardinality({i \in DOMAIN rendered : rendered[i] = tag})

(***************************************************************************)
(* C1                                                                      *)
(***************************************************************************)
\* C1: the filtered view is a subset of the base set, no larger than it, and
\* every record in it has the selected region, is scheduled when
\* scheduled_only is set, has a present elevation >= min_elevation, a type in
\* allowed_types and both coordinates; an empty allowed_types gives an empty
\* view.
C1_FilterSound ==
    ViewReady =>
        /\ Rows(filtered) \subseteq Rows(df)
        /\ Len(filtered) <= Len(df)
        /\ airport_types = {} => filtered = <<>>
        /\ \A r \in Rows(filtered) :
              /\ r.State = state
              /\ show_scheduled => r.scheduled_service = "yes"
              /\ r.elevation_ft.k = "num"
              /\ r.elevation_ft.v >= min_elevation
              /\ r.type \in airport_types
              /\ r.latitude_deg # NaN
              /\ r.longitude_deg # NaN

\* a view that kept a record and left one out, with every predicate active
C1_Witness ==
    /\ ViewReady
    /\ show_scheduled
    /\ min_elevation > 0
    /\ filtered # <<>>
    /\ Len(filtered) < Len(df)

(***************************************************************************)
(* C2                                                                      *)
(***************************************************************************)
AllPass ==
    /\ ViewReady
    /\ ~show_scheduled
    /\ min_elevation = 0
    /\ airport_types = Unique(df)

\* C2 as stated: with scheduled_only off, min_elevation 0 and every type
\* allowed, the view is exactly the base-set records of the selected region,
\* those with an absent elevation or type included.
C2_Original ==
    AllPass => Rows(filtered) = {r \in Rows(df) : r.State = state}

\* C2 as amended: with scheduled_only off, min_elevation 0 and every type
\* allowed, the view is exactly the base-set records of the selected region
\* whose elevation is present and at least 0; records with an absent type are
\* in it, records with an absent elevation are not.
C2_AllPassView ==
    AllPass =>
        Rows(filtered) =
            {r \in Rows(df) : /\ r.State = state
                              /\ r.elevation_ft.k = "num"
                              /\ r.elevation_ft.v >= 0}

\* a region with a record of absent type (kept) and one of absent elevation
\* (left out)
C2_Witness ==
    /\ AllPass
    /\ \E r \in Rows(filtered) : r.type = NaN
    /\ \E r \in Rows(df) : r.State = state /\ r.elevation_ft.k = "nan"

(***************************************************************************)
(* C3                                                                      *)
(***************************************************************************)
StatsAndCharts ==
    {"min_elevation", "max_elevation", "avg_elevation", "bar_chart",
     "pie_chart", "line_chart", "box_chart", "map"}

\* C3: on an empty view the run raises nothing, none of the elevation lines,
\* the charts and the map is rendered, and the finished page shows the
\* "no matches" state.
C3_EmptyState ==
    (ViewReady /\ filtered = <<>>) =>
        /\ raised = "none"
        /\ \A t \in StatsAndCharts : ~Shown(t)
        /\ pc = "done" => Shown("no_matches")

(***************************************************************************)
(* C4                                                                      *)
(***************************************************************************)
Loaded == pc # "load"

\* C4: a source row is in the base set exactly when its latitude, longitude
\* and region code are present and the code is one of the six New England
\* codes; every base-set record carries the table's name for its code.
C4_LoadExact ==
    Loaded =>
        /\ \A i \in DOMAIN source :
              (i - 1 \in Idx(df)) <=>
                  /\ source[i].latitude_deg # NaN
                  /\ source[i].longitude_deg # NaN
                  /\ source[i].iso_region # NaN
                  /\ source[i].iso_region \in
                        {"US-CT", "US-ME", "US-MA", "US-NH", "US-RI", "US-VT"}
        /\ \A r \in Rows(df) :
              /\ r.idx + 1 \in DOMAIN source
              /\ r.iso_region = source[r.idx + 1].iso_region
              /\ r.latitude_deg = source[r.idx + 1].latitude_deg
              /\ r.longitude_deg = source[r.idx + 1].longitude_deg
              /\ r.State # NaN
              /\ r.iso_region \in DOMAIN state_names
              /\ r.State = state_names[r.iso_region]

\* a load that kept a row and dropped a row
C4_Witness ==
    /\ Loaded
    /\ df # <<>>
    /\ Len(df) < Len(source)

(***************************************************************************)
(* C5                                                                      *)
(***************************************************************************)
\* the positions from the widgets to the last stage of a run
RunStages == (ViewStages \ {"done"}) \cup {"widgets", "filter"}

ViewAgrees ==
    \A m \in memo : (pc \in ViewStages /\ SameWidgets(m)) => Rows(filtered) = m.view

C6_CoercionRecovers ==
    (pc \notin {"load", "coerce"} /\ CoercionFails(LoadTable(source))) =>
        /\ Times("coercion_error") = 1
        /\ df = LoadTable(source)
        /\ raised = "none"

(***************************************************************************)
(* C7                                                                      *)
(***************************************************************************)
\* C7: the sorted view is in non-increasing elevation order, records of equal
\* elevation are in their original (index) order, and sorting it again gives
\* the same order.
C7_SortStableIdempotent ==
    Sorted =>
        /\ \A i \in DOMAIN filtered : \A j \in DOMAIN filtered :
              i < j =>
                  \/ filtered[i].elevation_ft.v > filtered[j].elevation_ft.v
                  \/ /\ filtered[i].elevation_ft.v = filtered[j].elevation_ft.v
                     /\ filtered[i].idx < filtered[j].idx
        /\ SortOutcomes(filtered) = {filtered}

(***************************************************************************)
(* C8                                                                      *)
(***************************************************************************)
RECURSIVE SumCounts(_)
SumCounts(S) ==
    IF S = {} THEN 0
    ELSE LET g == CHOOSE x \in S : TRUE IN g.count + SumCounts(S \ {g})

\* C8: the keys of the count-by-type grouping are the distinct types of the
\* view, no count is zero, and the counts add up to the number of records of
\* the view.
C8_GroupCountsComplete ==
    Grouped =>
        /\ {g.type : g \in type_counts} = {r.type : r \in Rows(filtered)}
        /\ \A g \in type_counts : g.count > 0
        /\ SumCounts(type_counts) = Len(filtered)

(***************************************************************************)
(* C9                                                                      *)
(***************************************************************************)
Rank(c) == IF c = "High" THEN 2 ELSE IF c = "Medium" THEN 1 ELSE 0

\* C9: every record of the categorized view has a present elevation and one
\* category: High from 2000, Medium from 1000 to below 2000, Low below; a
\* higher elevation never has a lower category.
C9_CategoryTotalMonotonic ==
    Categorized =>
        /\ DOMAIN category = DOMAIN filtered
        /\ \A i \in DOMAIN filtered :
              /\ filtered[i].elevation_ft.k = "num"
              /\ category[i] \in {"High", "Medium", "Low"}
              /\ category[i] = "High" <=> filtered[i].elevation_ft.v >= 2000
              /\ category[i] = "Medium" <=>
                    /\ filtered[i].elevation_ft.v >= 1000
                    /\ filtered[i].elevation_ft.v < 2000
        /\ \A i \in DOMAIN filtered : \A j \in DOMAIN filtered :
              filtered[i].elevation_ft.v >= filtered[j].elevation_ft.v =>
                  Rank(category[i]) >= Rank(category[j])

\* a view with a record on the High boundary and a record just under the
\* Medium boundary
C9_Witness ==
    /\ Categorized
    /\ \E i \in DOMAIN filtered :
          filtered[i].elevation_ft.v = 2000 /\ category[i] = "High"
    /\ \E i \in DOMAIN filtered :
          filtered[i].elevation_ft.v = 999 /\ category[i] = "Low"

(***************************************************************************)
(* C10                                                                     *)
(***************************************************************************)
\* the term occurs in the text as a substring, up to case
ContainsIgnoreCase(term, text) ==
    \E o \in 0..Len(text) :
        /\ o + Len(term) <= Len(text)
        /\ \A j \in DOMAIN term : Fold(term[j]) = Fold(text[o + j])

\* C10: a non-empty term raises nothing and its result is exactly the records
\* of the view whose name is present and contains the term as a substring up
\* to case; an empty term renders no search section and raises nothing.
C10_SearchIsSubstring ==
    Searched =>
        /\ raised = "none"
        /\ search_term = <<>> => ~Shown("search_results")
        /\ search_term # <<>> =>
              /\ Shown("search_results")
              /\ result = SelectRows(filtered,
                    {r.idx : r \in {x \in Rows(filtered) :
                        x.name # NaNName /\ ContainsIgnoreCase(search_term, x.name)}})

====
